---- MODULE Spec2Model ----
(***************************************************************************)
(* Model of git_analytics.py: the GitAnalytics object, the sequential      *)
(* control flow of generate_report, the collectors get_commit_stats and    *)
(* get_lines_of_code, and the fallback chain of get_pull_requests.         *)
(*                                                                         *)
(* External tools (git, gh, glab, the GitHub REST endpoint, the file       *)
(* system) are black boxes; what they answer is the variable `world`,      *)
(* drawn in Init and never changed.  Text is modelled after splitting:     *)
(* an output is a sequence of lines, a short date "YYYY-MM-DD" is the      *)
(* tuple of its '-'-separated tokens, a numstat line is the tuple of its   *)
(* tab-separated fields, a directory is the tuple of its components.       *)
(* Of get_commit_stats the fields total/unique/recent, first/last,         *)
(* commits_by_year and commits_by_month are modelled.                      *)
(***************************************************************************)
EXTENDS Integers, Sequences, FiniteSets, TLC

\* ---------------------------------------------------------------- bounds
MaxLog == 2         \* lines in the all-refs history listing
MaxNumstat == 2     \* lines in the numstat listing
MaxCount == 1       \* largest added/deleted count on a numstat line
MaxPR == 1          \* largest number of requests a source reports
MaxFileLines == 1   \* largest line count of a file on disk

\* ------------------------------------------------------ program constants
RecentDays == 30
TopFiles == 10

\* ---------------------------------------------------------------- helpers
Range(s) == {s[i] : i \in 1..Len(s)}

SeqsUpTo(S, n) == UNION {[1..k -> S] : k \in 0..n}

RECURSIVE SumSeq(_)
SumSeq(s) == IF s = <<>> THEN 0 ELSE Head(s) + SumSeq(Tail(s))

\* First occurrence of x in s, 0 when absent.
IndexOf(s, x) ==
    IF x \in Range(s) THEN CHOOSE i \in 1..Len(s) : s[i] = x /\ \A j \in 1..(i-1) : s[j] # x
    ELSE 0

\* Enumeration of a set in a fixed order.
RECURSIVE SetToSeq(_)
SetToSeq(S) ==
    IF S = {} THEN <<>>
    ELSE LET x == CHOOSE y \in S : TRUE IN <<x>> \o SetToSeq(S \ {x})

\* Keys of s in first-seen order.
RECURSIVE FirstSeen(_)
FirstSeen(s) ==
    IF s = <<>> THEN <<>>
    ELSE LET r == FirstSeen(SubSeq(s, 1, Len(s) - 1))
         IN IF s[Len(s)] \in Range(r) THEN r ELSE Append(r, s[Len(s)])

CountOf(s, k) == Cardinality({i \in 1..Len(s) : s[i] = k})

\* Stable insertion of the pair x = <<key, count>> before the first element
\* with a smaller count.
RECURSIVE InsertByCountDesc(_, _)
InsertByCountDesc(x, s) ==
    IF s = <<>> THEN <<x>>
    ELSE IF x[2] > Head(s)[2] THEN <<x>> \o s
    ELSE <<Head(s)>> \o InsertByCountDesc(x, Tail(s))

\* Stable sort of pairs by descending count: equal counts keep their order.
RECURSIVE SortByCountDesc(_)
SortByCountDesc(s) ==
    IF s = <<>> THEN <<>>
    ELSE InsertByCountDesc(s[Len(s)], SortByCountDesc(SubSeq(s, 1, Len(s) - 1)))

RECURSIVE InsertByKey(_, _)
InsertByKey(x, s) ==
    IF s = <<>> THEN <<x>>
    ELSE IF x[1] < Head(s)[1] THEN <<x>> \o s
    ELSE <<Head(s)>> \o InsertByKey(x, Tail(s))

\* Stable sort of pairs by ascending key.
RECURSIVE SortByKey(_)
SortByKey(s) ==
    IF s = <<>> THEN <<>>
    ELSE InsertByKey(s[Len(s)], SortByKey(SubSeq(s, 1, Len(s) - 1)))

Take(s, n) == SubSeq(s, 1, IF Len(s) < n THEN Len(s) ELSE n)

\* --------------------------------------------------------- paths and disk
Root == <<>>

RelPath(comps) == [rel |-> TRUE, comps |-> comps]
AbsPath(comps) == [rel |-> FALSE, comps |-> comps]

\* os.path.abspath: a relative path is joined to the process's directory.
abspath(path, cwd) == IF path.rel THEN cwd \o path.comps ELSE path.comps

\* os.path.dirname on an absolute directory; the root is its own parent.
dirname(d) == IF d = Root THEN Root ELSE SubSeq(d, 1, Len(d) - 1)

Absent == [exists |-> FALSE, readable |-> FALSE, lines |-> 0]
Unreadable == [exists |-> TRUE, readable |-> FALSE, lines |-> 0]
TextFile(n) == [exists |-> TRUE, readable |-> TRUE, lines |-> n]
FileStates == {Absent, Unreadable} \cup {TextFile(n) : n \in 1..MaxFileLines}

Files == {"a.py", "b"}
\* os.path.splitext(f)[1]
splitext(f) == IF f = "a.py" THEN ".py" ELSE ""

WorkDir == <<"w">>
RepoDir == <<"w", "r">>
SubDir == <<"w", "r", "s">>
FileDirs == {WorkDir, RepoDir}
NoDisk == [k \in FileDirs \X Files |-> Absent]

\* ------------------------------------------------------ the commit history
\* age: days between the author date and now.
Pool ==
    { [hash |-> 1, author |-> "alice", date |-> <<2024, 5, 1>>, age |-> 3],
      [hash |-> 2, author |-> "alice", date |-> <<2023, 7, 9>>, age |-> 400],
      [hash |-> 3, author |-> "alice", date |-> <<0, 0, 0>>, age |-> 9000],
      [hash |-> 4, author |-> "bob", date |-> <<2024, 4, 2>>, age |-> 20],
      [hash |-> 5, author |-> "alice", date |-> <<2024, 4, 9>>, age |-> 25] }

\* A date bound is <<>> (not given) or <<age>>.
NoDate == <<>>
StartDates == {NoDate, <<15>>, <<500>>}
EndDates == {NoDate, <<100>>}

\* ------------------------------------------------------ numstat listing
Num(n) == [k |-> "num", n |-> n]
Dash == [k |-> "dash", n |-> 0]
Junk == [k |-> "junk", n |-> 0]
Blank == [k |-> "blank", n |-> 0]
CountFields == {Num(n) : n \in 0..MaxCount} \cup {Dash, Junk}
\* A line is the tuple of its tab-separated parts; the third part is the path.
NumstatLines ==
    {<<Blank>>, <<Num(1)>>} \cup {<<a, d, Junk>> : a \in CountFields, d \in CountFields}

\* ------------------------------------------------ hosting tools' answers
Resp(k, n) == [k |-> k, n |-> n]
\* stdout of a listing command: a JSON array of n objects, a JSON object
\* with one key, a JSON scalar (number, null, true), text that is not
\* JSON; or the command exits non-zero; or the tool is not installed.
CliAnswers ==
    {Resp("array", n) : n \in 0..MaxPR} \cup
    {Resp("object", 1), Resp("scalar", 0), Resp("badjson", 0), Resp("nonzero", 0)}
GlabAnswers == CliAnswers \cup {Resp("notfound", 0)}
AuthAnswers == {"ok", "unauth", "notfound"}

Http(status, body, n) == [status |-> status, body |-> body, n |-> n]
\* status 0: requests.get raised (network error, timeout).
HttpAnswers ==
    {Http(200, "dict", n) : n \in 0..MaxPR} \cup
    {Http(200, "dict_nocount", 0), Http(200, "list", 0), Http(200, "invalid", 0),
     Http(401, "dict", 0), Http(403, "dict", 0), Http(500, "dict", 0), Http(0, "none", 0)}

VARIABLES
    pc,             \* position in generate_report
    repo_path,      \* self.repo_path
    start_date,     \* self.start_date
    end_date,       \* self.end_date
    username,       \* argument of generate_report
    output_format,  \* argument of generate_report
    world,          \* answers of git, gh, glab, the REST endpoint, the disk
    calls,          \* external commands issued, in order
    executed,       \* methods of GitAnalytics entered, in order
    notices,        \* lines printed to the operator
    commit_stats, loc_stats, pr_stats, activity_score,
    result          \* what generate_report returns

vars == <<pc, repo_path, start_date, end_date, username, output_format, world,
          calls, executed, notices, commit_stats, loc_stats, pr_stats,
          activity_score, result>>

\* ===================================================== the version-control tool
Opt(o, v) == [o |-> o, v |-> v]

\* Value of the last occurrence of option o on the command line (git keeps
\* the last --since / --until it is given), <<>> when the option is absent.
LastOpt(opts, o) ==
    LET at == {i \in 1..Len(opts) : opts[i].o = o}
    IN IF at = {} THEN <<>>
       ELSE <<opts[CHOOSE i \in at : \A j \in at : j <= i].v>>

\* git log --all --author <author> <opts>: one line per listed commit.
GitLog(history, author, opts) ==
    LET since == LastOpt(opts, "since")
        until == LastOpt(opts, "until")
        Listed(c) == /\ c.author = author
                     /\ (since = <<>> \/ c.age <= since[1])
                     /\ (until = <<>> \/ c.age >= until[1])
    IN SelectSeq(history, Listed)

\* ============================================================ GitAnalytics
build_date_filter(sd, ed) ==
    (IF sd # NoDate THEN <<Opt("since", sd[1])>> ELSE <<>>) \o
    (IF ed # NoDate THEN <<Opt("until", ed[1])>> ELSE <<>>)

\* failed: the command exits non-zero.  The CalledProcessError is caught
\* here: two lines are printed and the empty output is returned.
run_git_command(failed, stdout) ==
    IF failed
    THEN [out |-> <<>>, raised |-> "none",
          printed |-> <<"Git command failed", "Error: stderr">>]
    ELSE [out |-> stdout, raised |-> "none", printed |-> <<>>]

\* The loop of validate_repo: from d upward, stopping (without looking)
\* at the directory that is its own parent.
RECURSIVE walk(_, _)
walk(d, markers) ==
    IF d = dirname(d) THEN [found |-> FALSE, dir |-> d]
    ELSE IF d \in markers THEN [found |-> TRUE, dir |-> d]
    ELSE walk(dirname(d), markers)

\* probe: what run_git_command(['rev-parse', '--git-dir']) did.
validate_repo(path, cwd, markers, probe) ==
    IF probe.raised = "CalledProcessError"
    THEN LET w == walk(abspath(path, cwd), markers)
         IN IF w.found
            THEN [ok |-> TRUE, repo_path |-> AbsPath(w.dir),
                  printed |-> <<"Warning: Navigating to Git repository root">>]
            ELSE [ok |-> FALSE, repo_path |-> path, printed |-> <<>>]
    ELSE [ok |-> TRUE, repo_path |-> path, printed |-> <<>>]

\* check_user_exists without the test of the output.
check_user_exists_always(history, user, sd, ed, fail) ==
    LET r == run_git_command("log -1" \in fail,
                             Take(GitLog(history, user, build_date_filter(sd, ed)), 1))
    IN [ok |-> TRUE, printed |-> r.printed]

check_user_exists(history, user, sd, ed, fail) ==
    LET r == run_git_command("log -1" \in fail,
                             Take(GitLog(history, user, build_date_filter(sd, ed)), 1))
    IN [ok |-> r.out # <<>>, printed |-> r.printed]

\* Counter(keys).most_common() as the sequence of <<key, count>> pairs.
most_common(keys) ==
    LET ks == FirstSeen(keys)
    IN SortByCountDesc([i \in 1..Len(ks) |-> <<ks[i], CountOf(keys, ks[i])>>])

\* The line '0000' of the comparison on source line 123, split at '-'.
SentinelLine == <<0>>

commits_by_year(dates) ==
    LET kept == SelectSeq(dates, LAMBDA line : line # <<>> /\ line # SentinelLine)
    IN most_common([i \in 1..Len(kept) |-> kept[i][1]])

commits_by_month(dates) ==
    LET kept == SelectSeq(dates, LAMBDA line : line # <<>> /\ Len(line) >= 2)
    IN most_common([i \in 1..Len(kept) |-> <<kept[i][1], kept[i][2]>>])

\* The recent-commits query with '--since=30 days ago' after the date filter.
recent_command_filter_first(date_filter) == date_filter \o <<Opt("since", RecentDays)>>

\* The options of the recent-commits query: '--since=30 days ago', then the
\* date filter.
recent_command(date_filter) == <<Opt("since", RecentDays)>> \o date_filter

EmptyCommitStats ==
    [total_commits |-> 0, unique_commits |-> 0, recent_commits |-> 0,
     first_commit |-> <<>>, last_commit |-> <<>>,
     commits_by_year |-> <<>>, commits_by_month |-> <<>>]

get_commit_stats(history, user, sd, ed, fail) ==
    LET date_filter == build_date_filter(sd, ed)
        q(cmd, opts) == run_git_command(cmd \in fail, GitLog(history, user, opts))
        oneline == q("log oneline", date_filter)
        hashes == q("log hashes", date_filter)
        recent == q("log recent", recent_command(date_filter))
        dates == q("log dates", date_filter)
        years == q("log years", date_filter)
        months == q("log months", date_filter)
        short(out) == [i \in 1..Len(out) |-> out[i].date]
    IN [stats |->
          [total_commits |-> Len(oneline.out),
           unique_commits |-> Cardinality({hashes.out[i].hash : i \in 1..Len(hashes.out)}),
           recent_commits |-> Len(recent.out),
           first_commit |-> IF dates.out # <<>> THEN <<dates.out[Len(dates.out)].date>> ELSE <<>>,
           last_commit |-> IF dates.out # <<>> THEN <<dates.out[1].date>> ELSE <<>>,
           commits_by_year |-> IF years.out # <<>> THEN commits_by_year(short(years.out)) ELSE <<>>,
           commits_by_month |-> IF months.out # <<>> THEN commits_by_month(short(months.out)) ELSE <<>>],
        printed |-> oneline.printed \o hashes.printed \o recent.printed \o
                    dates.printed \o years.printed \o months.printed]

CommitStatsCalls ==
    <<"git log oneline", "git log hashes", "git log recent", "git log dates",
      "git log years", "git log months">>

calculate_activity_score(stats) == stats.total_commits * 10 + stats.recent_commits * 50

\* ------------------------------------------------------ get_lines_of_code
FileAt(disk, dir, f) == IF <<dir, f>> \in DOMAIN disk THEN disk[<<dir, f>>] ELSE Absent

\* int(text) of a count field: only a numeric token converts.
int(f) == IF f.k = "num" THEN [ok |-> TRUE, v |-> f.n] ELSE [ok |-> FALSE, v |-> 0]

\* line.strip() is empty.
IsBlankLine(line) == \A i \in 1..Len(line) : line[i].k = "blank"

\* The loop adding the additions before the deletions are converted.
RECURSIVE numstat_totals_partial(_, _)
numstat_totals_partial(lines, acc) ==
    IF lines = <<>> THEN acc
    ELSE LET parts == Head(lines)
             additions == IF parts[1] # Dash THEN int(parts[1]) ELSE [ok |-> TRUE, v |-> 0]
             deletions == IF parts[2] # Dash THEN int(parts[2]) ELSE [ok |-> TRUE, v |-> 0]
             reached == ~IsBlankLine(parts) /\ Len(parts) >= 2 /\ additions.ok
         IN numstat_totals_partial(Tail(lines),
                IF reached
                THEN [added |-> acc.added + additions.v,
                      deleted |-> acc.deleted + (IF deletions.ok THEN deletions.v ELSE 0)]
                ELSE acc)

\* The loop over the numstat lines: both fields are converted before either
\* total is touched, a ValueError skips the line.
RECURSIVE numstat_totals(_, _)
numstat_totals(lines, acc) ==
    IF lines = <<>> THEN acc
    ELSE LET parts == Head(lines)
             additions == IF parts[1] # Dash THEN int(parts[1]) ELSE [ok |-> TRUE, v |-> 0]
             deletions == IF parts[2] # Dash THEN int(parts[2]) ELSE [ok |-> TRUE, v |-> 0]
             counted == /\ ~IsBlankLine(parts)
                        /\ Len(parts) >= 2
                        /\ additions.ok
                        /\ deletions.ok
         IN numstat_totals(Tail(lines),
                IF counted
                THEN [added |-> acc.added + additions.v, deleted |-> acc.deleted + deletions.v]
                ELSE acc)

\* dir: the directory against which the operating system resolves the
\* relative paths handed to os.path.isfile and open.
get_lines_of_code(name_only, numstat, dir, disk, fail) ==
    LET listing == run_git_command("log name-only" \in fail, name_only)
        files == {f \in Range(listing.out) : f # ""}
        order == SetToSeq(files)
        counted == SelectSeq(order, LAMBDA f : FileAt(disk, dir, f).exists
                                               /\ FileAt(disk, dir, f).readable)
        file_sizes == [i \in 1..Len(counted) |-> <<counted[i], FileAt(disk, dir, counted[i]).lines>>]
        exts == {splitext(f) : f \in Range(counted)}
        diffs == run_git_command("log numstat" \in fail, numstat)
        totals == numstat_totals(diffs.out, [added |-> 0, deleted |-> 0])
    IN [stats |->
          [files_modified |-> Cardinality(files),
           total_loc |-> SumSeq([i \in 1..Len(file_sizes) |-> file_sizes[i][2]]),
           lines_added |-> totals.added,
           lines_deleted |-> totals.deleted,
           net_lines |-> totals.added - totals.deleted,
           files_by_extension |->
              [e \in exts |-> SumSeq([i \in 1..Len(file_sizes) |->
                                 IF splitext(file_sizes[i][1]) = e THEN file_sizes[i][2] ELSE 0])],
           largest_files |-> Take(SortByCountDesc(file_sizes), TopFiles)],
        printed |-> listing.printed \o diffs.printed]

EmptyLocStats ==
    [files_modified |-> 0, total_loc |-> 0, lines_added |-> 0, lines_deleted |-> 0,
     net_lines |-> 0, files_by_extension |-> <<>>, largest_files |-> <<>>]

\* ------------------------------------------------------ get_pull_requests
UnknownPR == [pull_requests |-> 0, source |-> "unknown"]

\* Stage 1 sending the listing query whatever the probe said.
gh_auth_stage_no_short_circuit(auth) ==
    IF auth = "notfound" THEN [next |-> "glab_mr_list", printed |-> <<>>]
    ELSE [next |-> "gh_pr_list", printed |-> <<>>]

\* Stage 1, first half: what follows the authentication probe.
gh_auth_stage(auth) ==
    IF auth = "ok" THEN [next |-> "gh_pr_list", printed |-> <<>>]
    ELSE IF auth = "unauth"
    THEN [next |-> "glab_mr_list", printed |-> <<"GitHub CLI not authenticated">>]
    ELSE [next |-> "glab_mr_list", printed |-> <<>>]

\* A stage that records its answer and goes on to the next source.
cli_stage_no_return(resp, tag) ==
    IF resp.k \in {"nonzero", "badjson", "notfound"}
    THEN [outcome |-> "pass", stats |-> UnknownPR]
    ELSE IF resp.k = "scalar"
    THEN [outcome |-> "TypeError", stats |-> UnknownPR]
    ELSE [outcome |-> "pass", stats |-> [pull_requests |-> resp.n, source |-> tag]]

\* A listing command run with check=True, its stdout given to json.loads
\* and the result to len: the three exceptions caught are a non-zero exit,
\* text that is not JSON and a missing executable; len of a JSON scalar
\* raises TypeError, which is not caught.
cli_stage(resp, tag) ==
    IF resp.k \in {"nonzero", "badjson", "notfound"}
    THEN [outcome |-> "pass", stats |-> UnknownPR]
    ELSE IF resp.k = "scalar"
    THEN [outcome |-> "TypeError", stats |-> UnknownPR]
    ELSE [outcome |-> "return", stats |-> [pull_requests |-> resp.n, source |-> tag]]

\* 'github.com' in remote_url, for the output of git config.
is_github(out) == out # <<>> /\ out[1] = "github"

\* Stage 3 taking the count from any answer that carries one, whatever the
\* status.
http_stage_any_status(http) ==
    IF http.status = 0
    THEN [returned |-> FALSE, stats |-> UnknownPR, printed |-> <<"GitHub API error">>]
    ELSE IF http.body = "dict"
    THEN [returned |-> TRUE, printed |-> <<>>,
          stats |-> [pull_requests |-> http.n, source |-> "github_api"]]
    ELSE IF http.body = "dict_nocount"
    THEN [returned |-> TRUE, printed |-> <<>>,
          stats |-> [pull_requests |-> 0, source |-> "github_api"]]
    ELSE [returned |-> FALSE, stats |-> UnknownPR, printed |-> <<"GitHub API error">>]

\* Stage 3 after the request was sent.
http_stage(http) ==
    IF http.status = 0
    THEN [returned |-> FALSE, stats |-> UnknownPR, printed |-> <<"GitHub API error">>]
    ELSE IF http.status = 200
    THEN IF http.body = "dict"
         THEN [returned |-> TRUE, printed |-> <<>>,
               stats |-> [pull_requests |-> http.n, source |-> "github_api"]]
         ELSE IF http.body = "dict_nocount"
         THEN [returned |-> TRUE, printed |-> <<>>,
               stats |-> [pull_requests |-> 0, source |-> "github_api"]]
         ELSE [returned |-> FALSE, stats |-> UnknownPR, printed |-> <<"GitHub API error">>]
    ELSE IF http.status = 401
    THEN [returned |-> FALSE, stats |-> UnknownPR,
          printed |-> <<"GitHub API authentication failed">>]
    ELSE IF http.status = 403
    THEN [returned |-> FALSE, stats |-> UnknownPR,
          printed |-> <<"GitHub API rate limit exceeded or insufficient permissions">>]
    ELSE [returned |-> FALSE, stats |-> UnknownPR, printed |-> <<>>]

\* ------------------------------------------------------------- rendering
generate_text_report(user, cs, ls, ps, score) ==
    [kind |-> "text", user |-> user,
     total_commits |-> cs.total_commits, unique_commits |-> cs.unique_commits,
     recent_commits |-> cs.recent_commits, activity_score |-> score,
     pull_requests |-> ps.pull_requests, source |-> ps.source,
     files_modified |-> ls.files_modified, total_loc |-> ls.total_loc,
     lines_added |-> ls.lines_added, lines_deleted |-> ls.lines_deleted,
     net_lines |-> ls.net_lines,
     timeline |-> IF cs.first_commit # <<>> /\ cs.last_commit # <<>>
                  THEN <<cs.first_commit[1], cs.last_commit[1]>> ELSE <<>>,
     years |-> SortByKey(cs.commits_by_year)]

generate_json_report(user, cs, ls, ps, score) ==
    [kind |-> "json", user |-> user, activity_score |-> score,
     commit_stats |-> cs, lines_of_code |-> ls, pull_requests |-> ps]

\* ================================================================ actions
Notice(by, msgs) == [i \in 1..Len(msgs) |-> [by |-> by, msg |-> msgs[i]]]

Collectors ==
    {"get_commit_stats", "get_lines_of_code", "get_pull_requests", "calculate_activity_score"}

\* generate_report, first check.
ValidateRepo ==
    /\ pc = "validate_repo"
    /\ LET probe == run_git_command("rev-parse" \in world.git_fail, <<".git">>)
           v == validate_repo(repo_path, world.cwd, world.markers, probe)
       IN /\ repo_path' = v.repo_path
          /\ notices' = notices \o Notice("validate_repo", probe.printed \o v.printed)
          /\ pc' = IF v.ok THEN "check_user_exists" ELSE "done"
          /\ result' = IF v.ok THEN result
                       ELSE [kind |-> "error", msg |-> "Error: Not a Git repository"]
    /\ calls' = Append(calls, "git rev-parse")
    /\ executed' = Append(executed, "validate_repo")
    /\ UNCHANGED <<start_date, end_date, username, output_format, world,
                   commit_stats, loc_stats, pr_stats, activity_score>>

\* generate_report, second check.
CheckUserExists ==
    /\ pc = "check_user_exists"
    /\ LET c == check_user_exists(world.history, username, start_date, end_date, world.git_fail)
       IN /\ notices' = notices \o Notice("check_user_exists", c.printed)
          /\ pc' = IF c.ok THEN "get_commit_stats" ELSE "done"
          /\ result' = IF c.ok THEN result
                       ELSE [kind |-> "error", msg |-> "Error: No commits found for user",
                             user |-> username]
    /\ calls' = Append(calls, "git log -1")
    /\ executed' = Append(executed, "check_user_exists")
    /\ UNCHANGED <<repo_path, start_date, end_date, username, output_format, world,
                   commit_stats, loc_stats, pr_stats, activity_score>>

GetCommitStats ==
    /\ pc = "get_commit_stats"
    /\ LET r == get_commit_stats(world.history, username, start_date, end_date, world.git_fail)
       IN /\ commit_stats' = r.stats
          /\ notices' = notices \o Notice("get_commit_stats", r.printed)
    /\ calls' = calls \o CommitStatsCalls
    /\ executed' = Append(executed, "get_commit_stats")
    /\ pc' = "get_lines_of_code"
    /\ UNCHANGED <<repo_path, start_date, end_date, username, output_format, world,
                   loc_stats, pr_stats, activity_score, result>>

\* os.path.isfile(file_path) and open(file_path) are given the path as git
\* printed it, so the process's working directory resolves it.
GetLinesOfCode ==
    /\ pc = "get_lines_of_code"
    /\ LET r == get_lines_of_code(world.name_only, world.numstat, world.cwd, world.disk,
                                  world.git_fail)
       IN /\ loc_stats' = r.stats
          /\ notices' = notices \o Notice("get_lines_of_code", r.printed)
    /\ calls' = calls \o <<"git log name-only", "git log numstat">>
    /\ executed' = Append(executed, "get_lines_of_code")
    /\ pc' = "gh_auth_status"
    /\ UNCHANGED <<repo_path, start_date, end_date, username, output_format, world,
                   commit_stats, pr_stats, activity_score, result>>

\* get_pull_requests, stage 1: the authentication probe.
GhAuthStatus ==
    /\ pc = "gh_auth_status"
    /\ LET r == gh_auth_stage(world.gh_auth)
       IN /\ pc' = r.next
          /\ notices' = notices \o Notice("get_pull_requests", r.printed)
    /\ calls' = Append(calls, "gh auth status")
    /\ executed' = Append(executed, "get_pull_requests")
    /\ pr_stats' = UnknownPR
    /\ UNCHANGED <<repo_path, start_date, end_date, username, output_format, world,
                   commit_stats, loc_stats, activity_score, result>>

\* get_pull_requests, stage 1: the listing query.
GhPrList ==
    /\ pc = "gh_pr_list"
    /\ LET r == cli_stage(world.gh_list, "github_cli")
       IN /\ pr_stats' = IF r.outcome = "return" THEN r.stats ELSE pr_stats
          /\ pc' = IF r.outcome = "return" THEN "calculate_activity_score"
                   ELSE IF r.outcome = "pass" THEN "glab_mr_list"
                   ELSE "raised"
          /\ result' = IF r.outcome \in {"return", "pass"} THEN result
                       ELSE [kind |-> "exception", type |-> r.outcome]
    /\ calls' = Append(calls, "gh pr list")
    /\ UNCHANGED <<repo_path, start_date, end_date, username, output_format, world,
                   executed, notices, commit_stats, loc_stats, activity_score>>

\* get_pull_requests, stage 2.
GlabMrList ==
    /\ pc = "glab_mr_list"
    /\ LET r == cli_stage(world.glab, "gitlab_cli")
       IN /\ pr_stats' = IF r.outcome = "return" THEN r.stats ELSE pr_stats
          /\ pc' = IF r.outcome = "return" THEN "calculate_activity_score"
                   ELSE IF r.outcome = "pass" THEN "remote_url"
                   ELSE "raised"
          /\ result' = IF r.outcome \in {"return", "pass"} THEN result
                       ELSE [kind |-> "exception", type |-> r.outcome]
    /\ calls' = Append(calls, "glab mr list")
    /\ UNCHANGED <<repo_path, start_date, end_date, username, output_format, world,
                   executed, notices, commit_stats, loc_stats, activity_score>>

\* get_pull_requests, stage 3: the remote URL decides whether a request is sent.
RemoteUrl ==
    /\ pc = "remote_url"
    /\ LET r == run_git_command("config" \in world.git_fail, <<world.remote>>)
       IN /\ notices' = notices \o Notice("get_pull_requests", r.printed)
          /\ pc' = IF is_github(r.out) THEN "http_get" ELSE "calculate_activity_score"
    /\ calls' = Append(calls, "git config")
    /\ UNCHANGED <<repo_path, start_date, end_date, username, output_format, world,
                   executed, commit_stats, loc_stats, pr_stats, activity_score, result>>

\* get_pull_requests, stage 3: the search request and its answer.
HttpGet ==
    /\ pc = "http_get"
    /\ LET r == http_stage(world.http)
       IN /\ pr_stats' = IF r.returned THEN r.stats ELSE pr_stats
          /\ notices' = notices \o Notice("get_pull_requests", r.printed)
    /\ calls' = Append(calls, "GET api.github.com")
    /\ pc' = "calculate_activity_score"
    /\ UNCHANGED <<repo_path, start_date, end_date, username, output_format, world,
                   executed, commit_stats, loc_stats, activity_score, result>>

\* generate_report, last part: the score and the rendering.
Render ==
    /\ pc = "calculate_activity_score"
    /\ LET score == calculate_activity_score(commit_stats)
       IN /\ activity_score' = score
          /\ result' = IF output_format = "json"
                       THEN generate_json_report(username, commit_stats, loc_stats, pr_stats, score)
                       ELSE generate_text_report(username, commit_stats, loc_stats, pr_stats, score)
    /\ executed' = executed \o <<"calculate_activity_score", "generate_report">>
    /\ pc' = "done"
    /\ UNCHANGED <<repo_path, start_date, end_date, username, output_format, world,
                   calls, notices, commit_stats, loc_stats, pr_stats>>

Next ==
    \/ ValidateRepo
    \/ CheckUserExists
    \/ GetCommitStats
    \/ GetLinesOfCode
    \/ GhAuthStatus
    \/ GhPrList
    \/ GlabMrList
    \/ RemoteUrl
    \/ HttpGet
    \/ Render

\* ========================================================= initial states
InitObject ==
    /\ pc = "validate_repo"
    /\ calls = <<>>
    /\ executed = <<>>
    /\ notices = <<>>
    /\ commit_stats = EmptyCommitStats
    /\ loc_stats = EmptyLocStats
    /\ pr_stats = UnknownPR
    /\ activity_score = 0
    /\ result = [kind |-> "none"]

Commit(h) == CHOOSE c \in Pool : c.hash = h

\* A checkout in RepoDir with two commits of alice, where every hosting
\* source is tried in turn.
BaseWorld ==
    [cwd |-> RepoDir,
     markers |-> {RepoDir},
     history |-> <<Commit(1), Commit(2)>>,
     name_only |-> <<"a.py", "", "b">>,
     numstat |-> << <<Num(1), Num(0), Junk>> >>,
     disk |-> [NoDisk EXCEPT ![<<RepoDir, "a.py">>] = TextFile(1)],
     git_fail |-> {},
     gh_auth |-> "ok",
     gh_list |-> Resp("nonzero", 0),
     glab |-> Resp("notfound", 0),
     remote |-> "github",
     http |-> Http(200, "dict", 1)]

BaseArgs ==
    /\ repo_path = RelPath(<<>>)
    /\ start_date = NoDate
    /\ end_date = NoDate
    /\ username = "alice"
    /\ output_format = "text"

\* Every combination of answers of the hosting tools.
Init ==
    /\ InitObject
    /\ BaseArgs
    /\ world \in {[BaseWorld EXCEPT !.gh_auth = a, !.gh_list = l, !.glab = g,
                                    !.remote = r, !.git_fail = f, !.http = h] :
                    a \in AuthAnswers, l \in CliAnswers, g \in GlabAnswers,
                    r \in {"github", "other"}, f \in {{}, {"config"}}, h \in HttpAnswers}

Spec == Init /\ [][Next]_vars

\* Where the tool is pointed, who is asked about, and whether git answers.
InitLocate ==
    /\ InitObject
    /\ start_date = NoDate
    /\ end_date = NoDate
    /\ output_format = "text"
    /\ repo_path \in {RelPath(<<>>), AbsPath(SubDir), AbsPath(WorkDir)}
    /\ username \in {"alice", "carol"}
    /\ world \in {[BaseWorld EXCEPT !.cwd = c, !.markers = m, !.git_fail = f, !.history = h] :
                    c \in {RepoDir, SubDir}, m \in SUBSET {Root, RepoDir},
                    f \in SUBSET {"rev-parse", "log -1"},
                    h \in {<<>>, <<Commit(1), Commit(2)>>, <<Commit(4)>>}}

SpecLocate == InitLocate /\ [][Next]_vars

\* Every short history listing, every date filter, every failing count query.
InitCommits ==
    /\ InitObject
    /\ repo_path = RelPath(<<>>)
    /\ username = "alice"
    /\ output_format \in {"text", "json"}
    /\ start_date \in StartDates
    /\ end_date \in EndDates
    /\ world \in {[BaseWorld EXCEPT !.history = h, !.git_fail = f] :
                    h \in SeqsUpTo(Pool, MaxLog),
                    f \in SUBSET {"log oneline", "log hashes", "log recent", "log years"}}

SpecCommits == InitCommits /\ [][Next]_vars

\* Every short numstat listing.
InitNumstat ==
    /\ InitObject
    /\ BaseArgs
    /\ world \in {[BaseWorld EXCEPT !.numstat = n, !.git_fail = f] :
                    n \in SeqsUpTo(NumstatLines, MaxNumstat), f \in {{}, {"log numstat"}}}

SpecNumstat == InitNumstat /\ [][Next]_vars

\* Every content of the two directories, the tool started inside or outside
\* the checkout.
InitLoc ==
    /\ InitObject
    /\ start_date = NoDate
    /\ end_date = NoDate
    /\ username = "alice"
    /\ output_format = "text"
    /\ repo_path \in {RelPath(<<>>), RelPath(<<"r">>), AbsPath(RepoDir)}
    /\ world \in {[BaseWorld EXCEPT !.cwd = c, !.disk = d, !.name_only = n] :
                    c \in FileDirs, d \in [FileDirs \X Files -> FileStates],
                    n \in {<<>>, <<"a.py">>, <<"a.py", "", "b">>, <<"b", "b">>}}

SpecLoc == InitLoc /\ [][Next]_vars

\* ================================================================ properties
Issued(c) == c \in Range(calls)
Ran(m) == m \in Range(executed)
IssuedBefore(a, b) == IndexOf(calls, a) # 0 /\ IndexOf(calls, a) < IndexOf(calls, b)
RanBefore(a, b) == IndexOf(executed, a) # 0 /\ IndexOf(executed, a) < IndexOf(executed, b)
Printed(m) == \E i \in 1..Len(notices) : notices[i].msg = m

\* What the sources answer, read off the world and not off the result.
Parseable(resp) == resp.k \in {"array", "object"}
GhSucceeds == world.gh_auth = "ok" /\ Parseable(world.gh_list)
GlabSucceeds == Parseable(world.glab)
ApiSucceeds ==
    /\ "config" \notin world.git_fail
    /\ world.remote = "github"
    /\ world.http.status = 200
    /\ world.http.body \in {"dict", "dict_nocount"}
PullRequestsReturned == pc \in {"calculate_activity_score", "done"}

\* C1: the sources are tried in the order GitHub CLI, GitLab CLI, REST API;
\* when the GitHub CLI stage succeeds neither the GitLab command nor the
\* HTTP request is ever issued and its answer is the result, when the GitLab
\* stage succeeds the HTTP request is never issued, and when all three fail
\* the result is count 0 with source "unknown".
C1_FirstSourceWins ==
    /\ Issued("glab mr list") => IssuedBefore("gh auth status", "glab mr list")
    /\ Issued("GET api.github.com") => IssuedBefore("glab mr list", "GET api.github.com")
    /\ GhSucceeds => ~Issued("glab mr list") /\ ~Issued("GET api.github.com")
    /\ (Issued("glab mr list") /\ GlabSucceeds) => ~Issued("GET api.github.com")
    /\ (PullRequestsReturned /\ GhSucceeds) => pr_stats.source = "github_cli"
    /\ (PullRequestsReturned /\ ~GhSucceeds /\ ~GlabSucceeds /\ ~ApiSucceeds)
          => pr_stats = [pull_requests |-> 0, source |-> "unknown"]

\* The GitHub CLI answered, and the GitLab CLI would have answered too.
C1_Witness ==
    /\ pc = "done"
    /\ pr_stats.source = "github_cli"
    /\ world.glab.k = "array"
    /\ world.http.status = 200

\* C10: in stage 1 the authentication probe is issued before the listing
\* query; when the probe reports unauthenticated the listing query is never
\* issued, a notice is printed and the GitLab CLI stage is next.
C10_AuthProbeFirst ==
    /\ Issued("gh pr list") => IssuedBefore("gh auth status", "gh pr list")
    /\ world.gh_auth = "unauth" => ~Issued("gh pr list")
    /\ (world.gh_auth = "unauth" /\ Issued("gh auth status"))
          => /\ Printed("GitHub CLI not authenticated")
             /\ pc = "glab_mr_list" \/ Issued("glab mr list")

C10_Witness ==
    /\ world.gh_auth = "unauth"
    /\ Issued("glab mr list")
    /\ pc = "done"

PullRequestNotices == {notices[i].msg : i \in {j \in 1..Len(notices) : notices[j].by = "get_pull_requests"}}

\* C7: GitHub CLI unauthenticated, GitLab CLI not installed, REST answer 403:
\* the result is (0, "unknown") and exactly three distinct notices were
\* printed by get_pull_requests, one per failed stage.
C7_ThreeNotices ==
    (/\ pc = "done"
     /\ world.gh_auth = "unauth"
     /\ world.glab.k = "notfound"
     /\ Issued("GET api.github.com")
     /\ world.http.status = 403)
    => /\ pr_stats = [pull_requests |-> 0, source |-> "unknown"]
       /\ Cardinality(PullRequestNotices) = 3

\* C4: once validate_repo and check_user_exists have passed, no failure of an
\* external query propagates as an exception: generate_report returns a
\* rendered report.
C4_NoFailurePropagates ==
    (Ran("check_user_exists") /\ pc \notin {"check_user_exists"} /\ result.kind # "error")
    => /\ pc # "raised"
       /\ result.kind # "exception"
       /\ pc = "done" => result.kind \in {"text", "json"}

\* The output of the existence query is empty: no commit matches, or the
\* command failed.
CheckOutputEmpty ==
    \/ "log -1" \in world.git_fail
    \/ GitLog(world.history, username, build_date_filter(start_date, end_date)) = <<>>

\* C2: check_user_exists runs before every collector; when its query output
\* is empty the result is the single message "No commits found for user
\* '<name>'" and no collector and no score computation is executed.
C2_ExistenceCheckFirst ==
    /\ \A m \in Collectors : Ran(m) => RanBefore("check_user_exists", m)
    /\ (pc = "done" /\ Ran("check_user_exists") /\ CheckOutputEmpty)
          => /\ result = [kind |-> "error", msg |-> "Error: No commits found for user",
                          user |-> username]
             /\ \A m \in Collectors : ~Ran(m)
             /\ commit_stats = EmptyCommitStats
             /\ loc_stats = EmptyLocStats
             /\ activity_score = 0

\* carol has no commit in a history that is not empty.
C2_Witness ==
    /\ pc = "done"
    /\ username = "carol"
    /\ world.history # <<>>
    /\ world.git_fail = {}
    /\ result.kind = "error"

\* C3: when the probe fails, the first directory from abspath(path) upward
\* that holds a .git directory is repo_path and validation succeeds; when
\* there is none the result is the "Not a Git repository" error and no
\* collector runs.
C3_RelocateOrNotFound ==
    (Ran("validate_repo") /\ "rev-parse" \in world.git_fail)
    => LET w == walk(abspath(repo_path, world.cwd), world.markers)
       IN IF w.found
          THEN /\ abspath(repo_path, world.cwd) = w.dir
               /\ result # [kind |-> "error", msg |-> "Error: Not a Git repository"]
          ELSE /\ pc = "done"
               /\ result = [kind |-> "error", msg |-> "Error: Not a Git repository"]
               /\ ~Ran("check_user_exists")
               /\ \A m \in Collectors : ~Ran(m)

CountQueries == {"log oneline", "log hashes", "log recent"}
CountsAnswered == Ran("get_commit_stats") /\ world.git_fail \cap CountQueries = {}
Listing == GitLog(world.history, username, build_date_filter(start_date, end_date))
ListedOnce == \A i, j \in 1..Len(Listing) : Listing[i].hash = Listing[j].hash => i = j

\* C5 as stated: for every date filter and every non-empty history, also one
\* whose listing shows a commit on several lines,
\* total_commits >= unique_commits >= recent_commits >= 0.
C5_TotalUniqueRecent ==
    CountsAnswered
    => /\ commit_stats.total_commits >= commit_stats.unique_commits
       /\ commit_stats.unique_commits >= commit_stats.recent_commits
       /\ commit_stats.recent_commits >= 0

\* C5 amended: when the three count queries are answered,
\* total_commits >= unique_commits >= 0 and total_commits >= recent_commits
\* >= 0; unique_commits >= recent_commits when no commit is listed on more
\* than one line.
C5_TotalBoundsBoth ==
    CountsAnswered
    => /\ commit_stats.total_commits >= commit_stats.unique_commits
       /\ commit_stats.unique_commits >= 0
       /\ commit_stats.total_commits >= commit_stats.recent_commits
       /\ commit_stats.recent_commits >= 0
       /\ ListedOnce => commit_stats.unique_commits >= commit_stats.recent_commits

\* A recent commit listed twice, under a date filter with a start date.
C5_Witness ==
    /\ CountsAnswered
    /\ commit_stats.total_commits > commit_stats.unique_commits
    /\ commit_stats.recent_commits > commit_stats.unique_commits
    /\ start_date # NoDate

YearKeys == {commit_stats.commits_by_year[i][1] : i \in 1..Len(commit_stats.commits_by_year)}

\* C6: the year histogram never has the sentinel year 0000 as a key, and the
\* text report lists its years in strictly ascending order without duplicates.
C6_NoSentinelYear ==
    /\ 0 \notin YearKeys
    /\ (pc = "done" /\ result.kind = "text")
          => \A i, j \in 1..Len(result.years) : i < j => result.years[i][1] < result.years[j][1]

\* A numstat line with at least two parts whose counts are integers or "-".
WellFormed(line) ==
    /\ Len(line) >= 2
    /\ \A i \in 1..2 : line[i].k \in {"num", "dash"}
FieldValue(f) == IF f.k = "num" THEN f.n ELSE 0
FieldSum(lines, i) ==
    SumSeq([l \in 1..Len(lines) |-> IF WellFormed(lines[l]) THEN FieldValue(lines[l][i]) ELSE 0])
NumstatOutput == IF "log numstat" \in world.git_fail THEN <<>> ELSE world.numstat

\* C8: lines_added is the sum of the first field and lines_deleted the sum of
\* the second field over the well-formed numstat lines, "-" counting 0; a
\* malformed line adds nothing to either total and does not stop the lines
\* after it; net_lines = lines_added - lines_deleted.
C8_NumstatTotals ==
    Ran("get_lines_of_code")
    => /\ loc_stats.lines_added = FieldSum(NumstatOutput, 1)
       /\ loc_stats.lines_deleted = FieldSum(NumstatOutput, 2)
       /\ loc_stats.net_lines = loc_stats.lines_added - loc_stats.lines_deleted

\* A line with a count that is no number, then a line that deletes more than
\* it adds.
C8_Witness ==
    /\ Ran("get_lines_of_code")
    /\ Len(NumstatOutput) = 2
    /\ Len(NumstatOutput[1]) >= 2
    /\ NumstatOutput[1][1].k = "num" /\ NumstatOutput[1][1].n > 0
    /\ NumstatOutput[1][2].k = "junk"
    /\ loc_stats.net_lines < 0

Touched == {f \in Range(world.name_only) : f # ""}
InRepo(f) == FileAt(world.disk, abspath(repo_path, world.cwd), f)
OnDisk == {f \in Touched : InRepo(f).exists /\ InRepo(f).readable}

\* C9: a touched path counts toward total_loc, files_by_extension and
\* largest_files exactly when it is a (readable) regular file under the
\* resolved repository root, whatever the working directory of the process;
\* a touched path that is gone still counts in files_modified.
C9_ResolvedAgainstRepo ==
    Ran("get_lines_of_code")
    => /\ loc_stats.files_modified = Cardinality(Touched)
       /\ {loc_stats.largest_files[i][1] : i \in 1..Len(loc_stats.largest_files)} = OnDisk
       /\ loc_stats.total_loc = SumSeq([i \in 1..Len(SetToSeq(OnDisk)) |->
                                          InRepo(SetToSeq(OnDisk)[i]).lines])
       /\ DOMAIN loc_stats.files_by_extension = {splitext(f) : f \in OnDisk}

SourceTags == {"github_cli", "gitlab_cli", "github_api", "unknown"}
InPullRequests == pc \in {"gh_pr_list", "glab_mr_list", "remote_url", "http_get"}
GetPullRequestsReturned ==
    Ran("get_pull_requests") /\ pc \in {"calculate_activity_score", "done"}

\* C11: whenever get_pull_requests returns, the source tag is one of
\* "github_cli", "gitlab_cli", "github_api", "unknown"; it is "unknown"
\* exactly when no stage succeeded, and then the count is 0; any other tag
\* names the stage whose answer is the count; a stage that failed leaves
\* neither a count nor a tag behind for the stages after it.
C11_TagNamesTheSource ==
    /\ InPullRequests => pr_stats = [pull_requests |-> 0, source |-> "unknown"]
    /\ GetPullRequestsReturned
          => /\ pr_stats.source \in SourceTags
             /\ pr_stats.source = "unknown"
                   <=> (~GhSucceeds /\ ~GlabSucceeds /\ ~ApiSucceeds)
             /\ pr_stats.source = "unknown" => pr_stats.pull_requests = 0
             /\ pr_stats.source = "github_cli"
                   => /\ GhSucceeds
                      /\ pr_stats.pull_requests = world.gh_list.n
             /\ pr_stats.source = "gitlab_cli"
                   => /\ Issued("glab mr list") /\ GlabSucceeds
                      /\ pr_stats.pull_requests = world.glab.n
             /\ pr_stats.source = "github_api"
                   => /\ Issued("GET api.github.com") /\ ApiSucceeds
                      /\ pr_stats.pull_requests = world.http.n

\* Both command-line stages failed after answering, the REST answer won.
C11_Witness ==
    /\ pc = "done"
    /\ world.gh_auth = "ok"
    /\ world.gh_list.k = "badjson"
    /\ world.glab.k = "nonzero"
    /\ pr_stats.source = "github_api"
    /\ pr_stats.pull_requests > 0

====
